---- MODULE Spec2Model ----
(***************************************************************************)
(* AtomicWaker of futures-core/src/task/__internal/atomic_ptr_waker.rs:    *)
(* a single slot holding at most one Waker, whose atomic `vtable` word is  *)
(* both the lock (REGISTERING_TABLE / TAKING_TABLE) and the identity of    *)
(* the stored waker's operation table; `data` is the plain cell behind it. *)
(* Every atomic access to `vtable`, every access to `data` and every       *)
(* clone / drop / wake of a Waker is one step of the calling thread.       *)
(* The atomics are modelled sequentially consistent: all claims are about  *)
(* the single word `vtable` and about `data`, which is only accessed       *)
(* between an AcqRel swap and a Release unlock of that word.               *)
(***************************************************************************)
EXTENDS Integers, Sequences, FiniteSets, TLC

\* ------------------------------------------------------------ bounds
NumThreads == 3
MaxOps == 4

Threads == 1..NumThreads
Handles == {"A", "B"}

\* ------------------------------------------------------------ pointers
null_mut == "null"
REGISTERING_TABLE == "REGISTERING_TABLE"
TAKING_TABLE == "TAKING_TABLE"
REGISTERING == "REGISTERING"
TAKING == "TAKING"

\* mutant: the two sentinel tables merged into one address
to_mut_Merged(k) == REGISTERING_TABLE

to_mut(k) == IF k = REGISTERING THEN REGISTERING_TABLE ELSE TAKING_TABLE

\* the operation table of the caller's waker h (waker.as_raw().vtable())
VTableOf(h) == IF h = "A" THEN "VTABLE_A" ELSE "VTABLE_B"

lock_val(r) == r

Sentinels == {to_mut(REGISTERING), to_mut(TAKING)}

VARIABLES
  vtable,   \* AtomicWaker.vtable
  data,     \* AtomicWaker.data: context pointer, 0 = core::ptr::null()
  clones,   \* every Waker clone made by end_register: its handle and fate
  pc,       \* position of each thread inside its current call
  op,       \* the call a thread is in, or returned from last
  arg,      \* register's `waker` argument
  old,      \* the local `old` of begin_register / take
  mine,     \* the local clone `waker` of end_register (0 = none)
  res,      \* take's `res` (0 = None)
  rmw,      \* swap / compare_exchange steps on vtable in the current call
  woke,     \* wake_by_ref calls on the caller's waker in the current call
  pubd,     \* the compare_exchange of the current register call succeeded
  sup,      \* the clone that was stored when this register won the lock
  tkIn,     \* a take's swap happened while this register held the lock
  rgIn,     \* another register's swap happened while this one held the lock
  nops,     \* calls started so far
  dropped,  \* the AtomicWaker has been dropped
  overlap,  \* some call started while another call was in flight
  cell,     \* one-element cell fed with the same calls (while ~overlap)
  expRel,   \* releases the one-element cell has performed
  expect,   \* what the one-element cell answered to the thread's take
  quiet,    \* only takes began since the slot was last idle and empty
  takeSince \* a take's swap happened after the latest register's swap

vars == <<vtable, data, clones, pc, op, arg, old, mine, res, rmw, woke, pubd,
          sup, tkIn, rgIn, nops, dropped, overlap, cell, expRel, expect, quiet, takeSince>>

NoHandle == "none"
Ids == DOMAIN clones

\* ------------------------------------------------------------ wakers
\* Waker::from_raw(RawWaker::new(d, vt)): the clone the rebuilt Waker acts
\* on.  Parts of two different wakers are undefined behaviour: any clone.
FromRaw(d, vt) ==
  IF d \in Ids /\ VTableOf(clones[d].h) = vt THEN {d} ELSE Ids \cup {0}

\* drop of a Waker (the table's `drop`)
Release(cs, c) ==
  IF c \in DOMAIN cs
    THEN [cs EXCEPT ![c].rel = @ + 1,
                    ![c].st = IF @ \in {"stored", "local", "returned"}
                                THEN "released" ELSE "double"]
    ELSE cs

\* Waker::wake (the table's `wake`), consuming the Waker
Invoke(cs, c) ==
  IF c \in DOMAIN cs
    THEN [cs EXCEPT ![c].inv = @ + 1,
                    ![c].st = IF @ = "returned" THEN "invoked" ELSE "uaf"]
    ELSE cs

Holds(t) == pc[t] \in {"r_dropold", "r_store", "r_cas", "r_unlock",
                       "t_read", "t_unlock"}
InFlight(t) == pc[t] # "idle"
AllIdle == \A t \in Threads : pc[t] = "idle"
Returned(t) == pc[t] = "idle" /\ op[t] # "none"

\* ------------------------------------------------------------ Init
Init ==
  /\ vtable = null_mut
  /\ data = 0
  /\ clones = << >>
  /\ pc = [t \in Threads |-> "idle"]
  /\ op = [t \in Threads |-> "none"]
  /\ arg = [t \in Threads |-> NoHandle]
  /\ old = [t \in Threads |-> null_mut]
  /\ mine = [t \in Threads |-> 0]
  /\ res = [t \in Threads |-> 0]
  /\ rmw = [t \in Threads |-> 0]
  /\ woke = [t \in Threads |-> 0]
  /\ pubd = [t \in Threads |-> FALSE]
  /\ sup = [t \in Threads |-> 0]
  /\ tkIn = [t \in Threads |-> FALSE]
  /\ rgIn = [t \in Threads |-> FALSE]
  /\ nops = 0
  /\ dropped = FALSE
  /\ overlap = FALSE
  /\ cell = NoHandle
  /\ expRel = 0
  /\ expect = [t \in Threads |-> NoHandle]
  /\ quiet = TRUE
  /\ takeSince = FALSE

\* ------------------------------------------------------------ call entry
\* bookkeeping common to the first step of a call by t of kind k.  Threads
\* are interchangeable, so they are numbered in the order of their first
\* call: every interleaving is a renaming of one that obeys this.
Enter(t, k, h) ==
  /\ pc[t] = "idle"
  /\ ~dropped
  /\ nops < MaxOps
  /\ \A u \in Threads : u < t => op[u] # "none"
  /\ nops' = nops + 1
  /\ op' = [op EXCEPT ![t] = k]
  /\ arg' = [arg EXCEPT ![t] = h]
  /\ mine' = [mine EXCEPT ![t] = 0]
  /\ res' = [res EXCEPT ![t] = 0]
  /\ rmw' = [rmw EXCEPT ![t] = 1]
  /\ woke' = [woke EXCEPT ![t] = 0]
  /\ pubd' = [pubd EXCEPT ![t] = FALSE]
  /\ LET ov == overlap \/ \E u \in Threads \ {t} : InFlight(u)
     IN  /\ overlap' = ov
         /\ cell' = IF ov THEN NoHandle
                    ELSE IF k = "register" THEN h ELSE NoHandle
         /\ expRel' = IF ov THEN 0
                      ELSE IF k = "register" /\ cell # NoHandle
                             THEN expRel + 1 ELSE expRel
         /\ expect' = IF ov THEN [u \in Threads |-> NoHandle]
                      ELSE [expect EXCEPT ![t] =
                              IF k = "register" THEN NoHandle ELSE cell]
  /\ quiet' = IF AllIdle THEN vtable = null_mut /\ k # "register"
              ELSE quiet /\ k # "register"

\* ------------------------------------------------------------ register
\* mutant: begin_register without the check for a taker
begin_register_NoTaking(o) ==
  IF o = to_mut(REGISTERING) THEN "ErrFalse" ELSE "Ok"

\* mutant: begin_register without the check for a registering peer
begin_register_NoRegistering(o) ==
  IF o = to_mut(TAKING) THEN "ErrTrue" ELSE "Ok"

\* begin_register's classification of the swapped-out value
begin_register(o) ==
  IF o = to_mut(REGISTERING) THEN "ErrFalse"
  ELSE IF o = to_mut(TAKING) THEN "ErrTrue"
  ELSE "Ok"

\* register(): begin_register's swap, lines 75-90
RegisterSwap(t, h) ==
  /\ Enter(t, "register", h)
  /\ vtable' = to_mut(REGISTERING)
  /\ old' = [old EXCEPT ![t] = vtable]
  /\ LET r == begin_register(vtable)
     IN  /\ pc' = [pc EXCEPT ![t] =
                     IF r # "Ok" THEN "r_wake"
                     ELSE IF vtable # null_mut THEN "r_dropold"
                     ELSE "r_store"]
         /\ sup' = [sup EXCEPT ![t] =
                      IF r = "Ok" /\ vtable # null_mut THEN data ELSE 0]
  /\ tkIn' = [tkIn EXCEPT ![t] = FALSE]
  /\ rgIn' = [u \in Threads |->
                IF u = t THEN FALSE
                ELSE IF Holds(u) /\ op[u] = "register" THEN TRUE
                ELSE rgIn[u]]
  /\ takeSince' = FALSE
  /\ UNCHANGED <<data, clones, dropped>>

\* mutant: begin_register forgets the superseded waker
RegisterDropOld_Leak(t) ==
  /\ pc[t] = "r_dropold"
  /\ pc' = [pc EXCEPT ![t] = "r_store"]
  /\ UNCHANGED <<vtable, data, clones, op, arg, old, mine, res, rmw, woke,
                 pubd, sup, tkIn, rgIn, nops, dropped, overlap, cell, expRel,
                 expect, quiet, takeSince>>

\* begin_register: drop the superseded waker, lines 91-100
RegisterDropOld(t) ==
  /\ pc[t] = "r_dropold"
  /\ \E c \in FromRaw(data, old[t]) : clones' = Release(clones, c)
  /\ pc' = [pc EXCEPT ![t] = "r_store"]
  /\ UNCHANGED <<vtable, data, op, arg, old, mine, res, rmw, woke, pubd, sup,
                 tkIn, rgIn, nops, dropped, overlap, cell, expRel, expect,
                 quiet, takeSince>>

\* mutant: end_register publishes the table without writing the data pointer
RegisterStore_NoData(t) ==
  /\ pc[t] = "r_store"
  /\ clones' = Append(clones, [h |-> arg[t], st |-> "local",
                               rel |-> 0, inv |-> 0])
  /\ mine' = [mine EXCEPT ![t] = Len(clones) + 1]
  /\ pc' = [pc EXCEPT ![t] = "r_cas"]
  /\ UNCHANGED <<vtable, data, op, arg, old, res, rmw, woke, pubd, sup, tkIn,
                 rgIn, nops, dropped, overlap, cell, expRel, expect, quiet, takeSince>>

\* end_register: clone the waker and write its data pointer, lines 114-118
RegisterStore(t) ==
  /\ pc[t] = "r_store"
  /\ clones' = Append(clones, [h |-> arg[t], st |-> "local",
                               rel |-> 0, inv |-> 0])
  /\ mine' = [mine EXCEPT ![t] = Len(clones) + 1]
  /\ data' = Len(clones) + 1
  /\ pc' = [pc EXCEPT ![t] = "r_cas"]
  /\ UNCHANGED <<vtable, op, arg, old, res, rmw, woke, pubd, sup, tkIn, rgIn,
                 nops, dropped, overlap, cell, expRel, expect, quiet, takeSince>>

\* mutant: the compare_exchange accepts either sentinel
CasSucceeds_AnySentinel(v) == v \in {to_mut(REGISTERING), to_mut(TAKING)}

\* mutant: a plain store in place of the compare_exchange
CasSucceeds_Always(v) == TRUE

\* end_register: compare_exchange(REGISTERING, ..) succeeds on value v,
\* lines 120-122
CasSucceeds(v) == v = to_mut(REGISTERING)

\* mutant: end_register retries its compare_exchange until it succeeds
RegisterCas_Retry(t) ==
  /\ pc[t] = "r_cas"
  /\ rmw' = [rmw EXCEPT ![t] = @ + 1]
  /\ IF CasSucceeds(vtable)
       THEN /\ vtable' = lock_val(VTableOf(clones[mine[t]].h))
            /\ clones' = [clones EXCEPT ![mine[t]].st = "stored"]
            /\ pubd' = [pubd EXCEPT ![t] = TRUE]
            /\ pc' = [pc EXCEPT ![t] = "idle"]
       ELSE UNCHANGED <<vtable, clones, pubd, pc>>
  /\ UNCHANGED <<data, op, arg, old, mine, res, woke, sup, tkIn, rgIn, nops,
                 dropped, overlap, cell, expRel, expect, quiet, takeSince>>

\* end_register: compare_exchange, lines 120-127, 131-133
RegisterCas(t) ==
  /\ pc[t] = "r_cas"
  /\ rmw' = [rmw EXCEPT ![t] = @ + 1]
  /\ IF CasSucceeds(vtable)
       THEN /\ vtable' = lock_val(VTableOf(clones[mine[t]].h))
            /\ clones' = [clones EXCEPT ![mine[t]].st = "stored"]
            /\ pubd' = [pubd EXCEPT ![t] = TRUE]
            /\ pc' = [pc EXCEPT ![t] = "idle"]
       ELSE /\ pc' = [pc EXCEPT ![t] = "r_unlock"]
            /\ UNCHANGED <<vtable, clones, pubd>>
  /\ UNCHANGED <<data, op, arg, old, mine, res, woke, sup, tkIn, rgIn, nops,
                 dropped, overlap, cell, expRel, expect, quiet, takeSince>>

\* mutant: end_register leaves the unlocking to the taker it lost to
RegisterUnlock_NoSwap(t) ==
  /\ pc[t] = "r_unlock"
  /\ pc' = [pc EXCEPT ![t] = "r_dropnew"]
  /\ UNCHANGED <<vtable, data, clones, op, arg, old, mine, res, rmw, woke,
                 pubd, sup, tkIn, rgIn, nops, dropped, overlap, cell, expRel,
                 expect, quiet, takeSince>>

\* end_register: unlock after a failed compare_exchange, line 129
RegisterUnlock(t) ==
  /\ pc[t] = "r_unlock"
  /\ vtable' = null_mut
  /\ rmw' = [rmw EXCEPT ![t] = @ + 1]
  /\ pc' = [pc EXCEPT ![t] = "r_dropnew"]
  /\ UNCHANGED <<data, clones, op, arg, old, mine, res, woke, pubd, sup, tkIn,
                 rgIn, nops, dropped, overlap, cell, expRel, expect, quiet, takeSince>>

\* mutant: end_register forgets the clone on both paths
RegisterDropNew_Forget(t) ==
  /\ pc[t] = "r_dropnew"
  /\ pc' = [pc EXCEPT ![t] = "r_wake"]
  /\ UNCHANGED <<vtable, data, clones, op, arg, old, mine, res, rmw, woke,
                 pubd, sup, tkIn, rgIn, nops, dropped, overlap, cell, expRel,
                 expect, quiet, takeSince>>

\* end_register: the unpublished clone goes out of scope, lines 130-131
RegisterDropNew(t) ==
  /\ pc[t] = "r_dropnew"
  /\ clones' = Release(clones, mine[t])
  /\ pc' = [pc EXCEPT ![t] = "r_wake"]
  /\ UNCHANGED <<vtable, data, op, arg, old, mine, res, rmw, woke, pubd, sup,
                 tkIn, rgIn, nops, dropped, overlap, cell, expRel, expect,
                 quiet, takeSince>>

\* mutant: no self-wake after losing the lock to a taker
SelfWakes_NotOnTaker(r) == r \in {"EndTrue", "ErrFalse"}

\* mutant: no self-wake after losing the lock to another register
SelfWakes_NotOnRegister(r) == r \in {"EndTrue", "ErrTrue"}

\* mutant: no self-wake after a failed publish
SelfWakes_NotAfterCas(r) == r \in {"ErrTrue", "ErrFalse"}

\* register(): which outcomes of begin_register / end_register reach a
\* wake_by_ref, lines 141-151
SelfWakes(r) == r \in {"EndTrue", "ErrTrue", "ErrFalse"}

\* the outcome the thread at r_wake carries
Outcome(t) ==
  IF begin_register(old[t]) = "Ok" THEN "EndTrue" ELSE begin_register(old[t])

\* register(): the match arms, lines 138-152
RegisterWake(t) ==
  /\ pc[t] = "r_wake"
  /\ woke' = [woke EXCEPT ![t] = IF SelfWakes(Outcome(t)) THEN @ + 1 ELSE @]
  /\ pc' = [pc EXCEPT ![t] = "idle"]
  /\ UNCHANGED <<vtable, data, clones, op, arg, old, mine, res, rmw, pubd,
                 sup, tkIn, rgIn, nops, dropped, overlap, cell, expRel,
                 expect, quiet, takeSince>>

\* ------------------------------------------------------------ take / wake
\* mutant: take yields only to another take
TakeLoses_OnlyTaking(o) == o = to_mut(TAKING)

\* mutant: take yields only to a register
TakeLoses_OnlyRegistering(o) == o = to_mut(REGISTERING)

\* take(): the swapped-out value means the lock is held, line 163
TakeLoses(o) == o = to_mut(REGISTERING) \/ o = to_mut(TAKING)

\* take(): the swap, lines 161-170; k is "take" or "wake" (wake calls take)
TakeSwap(t, k) ==
  /\ Enter(t, k, NoHandle)
  /\ vtable' = to_mut(TAKING)
  /\ old' = [old EXCEPT ![t] = vtable]
  /\ pc' = [pc EXCEPT ![t] =
              IF TakeLoses(vtable) THEN "idle"
              ELSE IF vtable = null_mut THEN "t_unlock"
              ELSE "t_read"]
  /\ tkIn' = [u \in Threads |->
                IF u # t /\ Holds(u) /\ op[u] = "register" THEN TRUE
                ELSE tkIn[u]]
  /\ takeSince' = TRUE
  /\ UNCHANGED <<data, clones, sup, rgIn, dropped>>

\* take(): rebuild the stored waker, lines 171-173
TakeRead(t) ==
  /\ pc[t] = "t_read"
  /\ \E c \in FromRaw(data, old[t]) :
       /\ res' = [res EXCEPT ![t] = c]
       /\ clones' = IF c \in Ids
                      THEN [clones EXCEPT ![c].st =
                              IF @ = "stored" THEN "returned" ELSE "double"]
                      ELSE clones
  /\ pc' = [pc EXCEPT ![t] = "t_unlock"]
  /\ UNCHANGED <<vtable, data, op, arg, old, mine, rmw, woke, pubd, sup, tkIn,
                 rgIn, nops, dropped, overlap, cell, expRel, expect, quiet, takeSince>>

\* mutant: take leaves its own sentinel behind
TakeUnlockVal_Taking == to_mut(TAKING)

\* take(): the value the unlocking store writes, line 177
TakeUnlockVal == null_mut

\* take(): unlock and return, lines 176-179
TakeUnlock(t) ==
  /\ pc[t] = "t_unlock"
  /\ vtable' = TakeUnlockVal
  /\ pc' = [pc EXCEPT ![t] =
              IF op[t] = "wake" /\ res[t] # 0 THEN "w_wake" ELSE "idle"]
  /\ UNCHANGED <<data, clones, op, arg, old, mine, res, rmw, woke, pubd, sup,
                 tkIn, rgIn, nops, dropped, overlap, cell, expRel, expect,
                 quiet, takeSince>>

\* wake(): invoke the taken waker, lines 184-186
WakeInvoke(t) ==
  /\ pc[t] = "w_wake"
  /\ clones' = Invoke(clones, res[t])
  /\ pc' = [pc EXCEPT ![t] = "idle"]
  /\ UNCHANGED <<vtable, data, op, arg, old, mine, res, rmw, woke, pubd, sup,
                 tkIn, rgIn, nops, dropped, overlap, cell, expRel, expect,
                 quiet, takeSince>>

\* ------------------------------------------------------------ drop
\* mutant: the drop forgets the waker it took
Drop_Forget ==
  /\ ~dropped
  /\ AllIdle
  /\ nops > 0
  /\ dropped' = TRUE
  /\ vtable' = IF TakeLoses(vtable) THEN to_mut(TAKING) ELSE TakeUnlockVal
  /\ UNCHANGED <<data, clones, pc, op, arg, old, mine, res, rmw, woke, pubd,
                 sup, tkIn, rgIn, nops, overlap, cell, expRel, expect, quiet, takeSince>>

\* Drop for AtomicWaker: self.take() and the drop of its result,
\* lines 202-206 (with take, lines 161-179).  `&mut self`: no call in flight.
Drop ==
  /\ ~dropped
  /\ AllIdle
  /\ nops > 0
  /\ dropped' = TRUE
  /\ IF TakeLoses(vtable)
       THEN /\ vtable' = to_mut(TAKING)
            /\ UNCHANGED clones
       ELSE /\ vtable' = TakeUnlockVal
            /\ IF vtable = null_mut
                 THEN UNCHANGED clones
                 ELSE \E c \in FromRaw(data, vtable) :
                        clones' = Release(clones, c)
  /\ UNCHANGED <<data, pc, op, arg, old, mine, res, rmw, woke, pubd, sup, tkIn,
                 rgIn, nops, overlap, cell, expRel, expect, quiet, takeSince>>

\* ------------------------------------------------------------ spec
Next ==
  \/ \E t \in Threads : \E h \in Handles : RegisterSwap(t, h)
  \/ \E t \in Threads : RegisterDropOld(t)
  \/ \E t \in Threads : RegisterStore(t)
  \/ \E t \in Threads : RegisterCas(t)
  \/ \E t \in Threads : RegisterUnlock(t)
  \/ \E t \in Threads : RegisterDropNew(t)
  \/ \E t \in Threads : RegisterWake(t)
  \/ \E t \in Threads : \E k \in {"take", "wake"} : TakeSwap(t, k)
  \/ \E t \in Threads : TakeRead(t)
  \/ \E t \in Threads : TakeUnlock(t)
  \/ \E t \in Threads : WakeInvoke(t)
  \/ Drop

Spec == Init /\ [][Next]_vars

\* ------------------------------------------------------------ claims
RegisterReturned(t) == Returned(t) /\ op[t] = "register"
IsTake(t) == op[t] \in {"take", "wake"}
LockFree == \A u \in Threads : ~Holds(u)
Stored == {c \in Ids : clones[c].st = "stored"}

\* C1 (no lost wakeup): when a register(h) call has returned, either its
\* clone of h was published (and, while it is still stored and nobody holds
\* the lock, vtable is h's table and data is that clone, so a take finds it)
\* or the call has invoked h.
NoLostWakeup ==
  \A t \in Threads : RegisterReturned(t) =>
    \/ woke[t] >= 1
    \/ /\ pubd[t]
       /\ mine[t] \in Ids
       /\ clones[mine[t]].h = arg[t]
       /\ clones[mine[t]].st # "local"
       /\ (clones[mine[t]].st = "stored" /\ LockFree) =>
            (vtable = VTableOf(arg[t]) /\ data = mine[t])

\* a register that replaced a stored waker, was raced by a take only, and
\* woke its caller
NoLostWakeupWitness ==
  \E t \in Threads :
    /\ RegisterReturned(t) /\ sup[t] # 0
    /\ tkIn[t] /\ ~rgIn[t] /\ woke[t] = 1

\* C2 (no double ownership): at most one clone is stored at any instant
\* (and it is the one data points to), no clone is released twice, and the
\* clone a winning register found stored is released exactly once as soon as
\* that register is past its drop of the old waker.
NoDoubleOwnership ==
  /\ Cardinality(Stored) <= 1
  /\ \A c \in Stored : data = c
  /\ \A c \in Ids : clones[c].rel <= 1
  /\ \A t \in Threads :
       (op[t] = "register" /\ sup[t] # 0 /\ pc[t] # "r_dropold") =>
         /\ sup[t] \in Ids
         /\ clones[sup[t]].rel = 1
         /\ clones[sup[t]].st = "released"

\* a register superseded a stored clone while another register raced it
NoDoubleOwnershipWitness ==
  \E t \in Threads :
    /\ RegisterReturned(t) /\ sup[t] # 0 /\ rgIn[t] /\ pubd[t]
    /\ clones[sup[t]].rel = 1

\* C3 (at-most-once consumption): every clone is released at most once,
\* invoked at most once and only after a take returned it, never both
\* released and returned; no two takes return the same clone; an unpublished
\* clone is still in the hands of the register that made it, a clone taken
\* by wake() is invoked by the time wake returns, and after the drop no
\* clone is left stored.
AtMostOnceConsumption ==
  /\ \A c \in Ids :
       /\ clones[c].st \in {"local", "stored", "returned", "released",
                            "invoked"}
       /\ clones[c].rel + clones[c].inv <= 1
       /\ clones[c].rel = 1 <=> clones[c].st = "released"
       /\ clones[c].inv = 1 <=> clones[c].st = "invoked"
       /\ clones[c].st = "local" =>
            \E t \in Threads : mine[t] = c /\ op[t] = "register"
                               /\ pc[t] \in {"r_cas", "r_unlock", "r_dropnew"}
       /\ clones[c].st = "stored" => ~dropped
  /\ \A t \in Threads :
       (op[t] = "wake" /\ res[t] # 0) =>
         /\ res[t] \in Ids
         /\ pc[t] \in {"t_unlock", "w_wake"} =>
              clones[res[t]].st = "returned"
         /\ pc[t] = "idle" => clones[res[t]].st = "invoked"
  /\ \A t, u \in Threads :
       (t # u /\ IsTake(t) /\ IsTake(u) /\ res[t] # 0) => res[t] # res[u]

\* after the drop: one clone was invoked by a wake racing a register, the
\* other released
AtMostOnceConsumptionWitness ==
  /\ dropped /\ overlap
  /\ \E c, d \in Ids : clones[c].st = "invoked" /\ clones[d].st = "released"

\* C4 (sequential behaviour): while no two calls have overlapped and the
\* slot is not dropped, every returned register published a clone of its
\* argument and invoked nothing, every returned take answered what the
\* one-element cell answered, and between calls the slot holds exactly the
\* cell's content and has released exactly what the cell has released.
SequentialCell ==
  (~overlap /\ ~dropped) =>
    /\ \A t \in Threads : RegisterReturned(t) =>
         pubd[t] /\ woke[t] = 0 /\ clones[mine[t]].h = arg[t]
    /\ \A t \in Threads : (Returned(t) /\ IsTake(t)) =>
         /\ (expect[t] = NoHandle) <=> (res[t] = 0)
         /\ res[t] # 0 => clones[res[t]].h = expect[t]
    /\ AllIdle =>
         /\ (cell = NoHandle) <=> (vtable = null_mut)
         /\ cell # NoHandle =>
              /\ vtable = VTableOf(cell)
              /\ data \in Ids
              /\ clones[data].h = cell
              /\ clones[data].st = "stored"
         /\ Cardinality({c \in Ids : clones[c].rel = 1}) = expRel
         /\ \A c \in Ids : clones[c].rel <= 1

\* register(A); register(B); take() gave B with one release; take() nothing
SequentialCellWitness ==
  /\ ~overlap /\ AllIdle /\ nops = 4 /\ expRel = 1 /\ vtable = null_mut
  /\ Len(clones) = 2 /\ clones[1].h = "A" /\ clones[1].st = "released"
  /\ \E t, u \in Threads :
       /\ t # u /\ op[t] = "take" /\ op[u] = "take"
       /\ res[t] = 2 /\ clones[2].h = "B" /\ res[u] = 0

\* C5 (race scenario): a register that won the lock and was raced by takes
\* only finds TAKING at its compare_exchange, publishes nothing, sets vtable
\* to null, releases its own clone and wakes its caller exactly once before
\* returning; a take or wake whose swap observed REGISTERING returns nothing
\* at once and invokes nothing.
RaceScenarioState ==
  /\ \A t \in Threads :
       (op[t] = "register" /\ tkIn[t] /\ ~rgIn[t]) =>
         /\ pc[t] = "r_cas" => vtable = to_mut(TAKING)
         /\ ~pubd[t]
         /\ pc[t] \in {"r_dropnew", "r_wake", "idle"} =>
              (mine[t] \in Ids /\ clones[mine[t]].st \in {"local", "released"})
         /\ pc[t] \in {"r_wake", "idle"} => clones[mine[t]].st = "released"
         /\ Returned(t) => woke[t] = 1
  /\ \A u \in Threads :
       (IsTake(u) /\ old[u] = to_mut(REGISTERING)) =>
         (res[u] = 0 /\ pc[u] = "idle")

RaceScenarioStep ==
  \A t \in Threads :
    (op[t] = "register" /\ tkIn[t] /\ ~rgIn[t]
       /\ pc[t] = "r_unlock" /\ pc'[t] # "r_unlock") => vtable' = null_mut

RaceScenario == []RaceScenarioState /\ [][RaceScenarioStep]_vars

\* register(A) and one wake(), nothing else: the register woke A itself
RaceScenarioWitness ==
  \E t, u \in Threads :
    /\ nops = 2 /\ RegisterReturned(t) /\ arg[t] = "A"
    /\ tkIn[t] /\ woke[t] = 1 /\ vtable = null_mut
    /\ op[u] = "wake" /\ old[u] = to_mut(REGISTERING) /\ Returned(u)

\* C6 (destruction releases, never invokes): the drop of a slot whose vtable
\* is a real table releases the clone data points to, which was stored and
\* is now released exactly once and never invoked, and changes no other
\* clone; the drop of an empty slot changes no clone.
DropReleasesStep ==
  (~dropped /\ dropped') =>
    /\ \A c \in Ids :
         /\ clones'[c].inv = clones[c].inv
         /\ (vtable = null_mut \/ c # data) => clones'[c] = clones[c]
    /\ vtable \notin Sentinels \cup {null_mut} =>
         /\ data \in Ids
         /\ clones[data].st = "stored"
         /\ clones'[data].st = "released"
         /\ clones'[data].rel = 1
         /\ clones'[data].inv = 0
    /\ DOMAIN clones' = Ids

DropReleases == [][DropReleasesStep]_vars

\* register(A), then the drop: the only clone is released, not invoked
DropReleasesWitness ==
  /\ dropped /\ nops = 1 /\ Len(clones) = 1
  /\ clones[1].st = "released" /\ clones[1].inv = 0

\* C7 (self-wake on every loss): a returned register that did not publish
\* its clone has invoked the caller's waker exactly once, whatever it lost
\* to; one that published has not invoked it.
SelfWakeOnLoss ==
  \A t \in Threads : RegisterReturned(t) =>
    /\ ~pubd[t] => woke[t] = 1
    /\ pubd[t] => woke[t] = 0

\* a register whose swap observed REGISTERING woke its caller
SelfWakeOnLossWitness ==
  \E t \in Threads :
    RegisterReturned(t) /\ old[t] = to_mut(REGISTERING) /\ woke[t] = 1

\* C8 as stated: every returned call made one or two swap/compare_exchange
\* steps on vtable.
OneOrTwoSteps ==
  \A t \in Threads : Returned(t) => rmw[t] \in {1, 2}

\* C8 amended: a call never makes more than three swap/compare_exchange
\* steps; a returned take or wake made exactly one (its unlock is a plain
\* store), a returned register one when it lost the lock, two when it
\* published, three when its publish failed (swap, compare_exchange, swap);
\* a call in flight can always take its next step, whatever the others do.
ThreadStep(t) ==
  \/ RegisterDropOld(t) \/ RegisterStore(t) \/ RegisterCas(t)
  \/ RegisterUnlock(t) \/ RegisterDropNew(t) \/ RegisterWake(t)
  \/ TakeRead(t) \/ TakeUnlock(t) \/ WakeInvoke(t)

BoundedSteps ==
  \A t \in Threads :
    /\ rmw[t] \in 0..3
    /\ InFlight(t) => ENABLED ThreadStep(t)
    /\ (Returned(t) /\ IsTake(t)) => rmw[t] = 1
    /\ RegisterReturned(t) =>
         rmw[t] = (IF old[t] \in Sentinels THEN 1
                   ELSE IF pubd[t] THEN 2 ELSE 3)

\* a register whose publish failed has returned after three steps
BoundedStepsWitness ==
  \E t \in Threads : RegisterReturned(t) /\ rmw[t] = 3 /\ woke[t] = 1

\* C9 (idempotent empty-take): while only takes have begun since the slot
\* was last idle and empty, no step releases, invokes or returns a clone,
\* every answer a take gets is nothing, and whenever all calls have returned
\* vtable is null.
EmptyTakeStep ==
  quiet' =>
    /\ clones' = clones
    /\ \A t \in Threads : res'[t] = 0 \/ res'[t] = res[t]
    /\ \A t \in Threads : pc'[t] \notin {"t_read", "w_wake"}

EmptyTakeState == (quiet /\ AllIdle) => vtable = null_mut

EmptyTake == []EmptyTakeState /\ [][EmptyTakeStep]_vars

\* an emptied slot, then two takes of which one lost the race to the other
EmptyTakeWitness ==
  /\ quiet /\ AllIdle /\ Len(clones) > 0
  /\ \E t, u \in Threads :
       /\ t # u /\ IsTake(t) /\ IsTake(u)
       /\ old[t] = null_mut /\ old[u] = to_mut(TAKING)

\* C10 (lock ownership): at most one thread holds the lock, a holder's swap
\* observed a non-sentinel value, and vtable leaves the sentinels only by a
\* step of the holder.
LockOwnershipState ==
  /\ Cardinality({t \in Threads : Holds(t)}) <= 1
  /\ \A t \in Threads : Holds(t) => old[t] \notin Sentinels
  /\ \A t \in Threads :
       (InFlight(t) /\ old[t] \in Sentinels) => pc[t] = "r_wake"

LockOwnershipStep ==
  (vtable \in Sentinels /\ vtable' \notin Sentinels) =>
    \E t \in Threads : Holds(t) /\ ~Holds(t)' /\ pc'[t] # pc[t]

LockOwnership == []LockOwnershipState /\ [][LockOwnershipStep]_vars

\* a holder and a loser in flight together, the loser having overwritten
\* the holder's sentinel
LockOwnershipWitness ==
  \E t, u \in Threads :
    /\ Holds(t) /\ op[t] = "take" /\ vtable = to_mut(REGISTERING)
    /\ InFlight(u) /\ old[u] = to_mut(TAKING)

\* the next step of t reads or writes data (lines 94, 117, 171)
AccessesData(t) == pc[t] \in {"r_dropold", "r_store", "t_read"}
\* t's swap won the lock and t has not written its unlocking value yet
Locked(t) == InFlight(t) /\ old[t] \notin Sentinels
               /\ pc[t] \notin {"r_dropnew", "r_wake", "w_wake"}

\* C11 (no data race on the payload): at most one thread is about to read
\* or write data, that thread's swap won the lock and vtable is still a
\* sentinel, no other thread is inside a critical section at that moment, a
\* call whose swap observed a sentinel never reaches an access, and data
\* changes only by a step of a thread that holds the lock.
NoDataRaceState ==
  /\ Cardinality({t \in Threads : AccessesData(t)}) <= 1
  /\ \A t \in Threads : AccessesData(t) =>
       /\ Locked(t)
       /\ vtable \in Sentinels
       /\ \A u \in Threads \ {t} : ~Locked(u)
  /\ \A t \in Threads :
       (InFlight(t) /\ old[t] \in Sentinels) => ~AccessesData(t)

NoDataRaceStep ==
  data' # data =>
    \E t \in Threads : Locked(t) /\ pc[t] = "r_store" /\ pc'[t] # pc[t]
                       /\ \A u \in Threads \ {t} : ~Locked(u)

NoDataRace == []NoDataRaceState /\ [][NoDataRaceStep]_vars

\* a register is about to write data while a take that lost to it and a
\* register that lost to that take's sentinel have come and gone
NoDataRaceWitness ==
  \E t, u \in Threads :
    /\ pc[t] = "r_store" /\ tkIn[t] /\ rgIn[t] /\ sup[t] # 0
    /\ u # t /\ pc[u] = "r_wake" /\ old[u] = to_mut(TAKING)

\* C12 (payload pairing, I1): whenever vtable is a real table, data is the
\* clone that the publishing register made, its table is vtable, and the
\* clone is stored (not released, returned or invoked); whenever a lock
\* holder is about to rebuild a waker from its `old` and data, both belong
\* to one stored clone.
PayloadPairing ==
  /\ vtable \notin Sentinels \cup {null_mut} =>
       /\ data \in Ids
       /\ VTableOf(clones[data].h) = vtable
       /\ clones[data].st = "stored"
       /\ clones[data].rel = 0 /\ clones[data].inv = 0
       /\ \E t \in Threads : mine[t] = data /\ pubd[t] /\ arg[t] = clones[data].h
  /\ \A t \in Threads : pc[t] \in {"r_dropold", "t_read"} =>
       /\ data \in Ids
       /\ VTableOf(clones[data].h) = old[t]
       /\ clones[data].st = "stored"
       /\ FromRaw(data, old[t]) = {data}

\* a take is about to rebuild a stored clone of B after a clone of A had
\* been stored and released
PayloadPairingWitness ==
  \E t \in Threads :
    /\ pc[t] = "t_read" /\ old[t] = VTableOf("B") /\ data = 2
    /\ clones[1].h = "A" /\ clones[1].st = "released"

\* C13 as stated: REGISTERING means a register holds the lock, TAKING means
\* a take or wake holds it.
SentinelNamesHolder ==
  /\ vtable = to_mut(REGISTERING) =>
       \E t \in Threads : Locked(t) /\ op[t] = "register"
  /\ vtable = to_mut(TAKING) =>
       \E t \in Threads : Locked(t) /\ IsTake(t)

\* C13 amended: vtable is a sentinel exactly when some call holds the lock;
\* REGISTERING was written by the swap of a register that holds the lock or
\* lost it, TAKING by the swap of a take or wake that holds the lock or lost
\* it, so the holder may be of the other kind.
SentinelNamesSwapper ==
  /\ vtable \in Sentinels <=> \E t \in Threads : Locked(t)
  /\ vtable = to_mut(REGISTERING) =>
       \E u \in Threads :
         op[u] = "register" /\ (Locked(u) \/ old[u] \in Sentinels)
  /\ vtable = to_mut(TAKING) =>
       \E u \in Threads : IsTake(u) /\ (Locked(u) \/ old[u] \in Sentinels)

\* a register holds the lock under TAKING, left by a wake that has returned
SentinelNamesSwapperWitness ==
  \E t, u \in Threads :
    /\ Locked(t) /\ op[t] = "register" /\ vtable = to_mut(TAKING)
    /\ op[u] = "wake" /\ Returned(u) /\ old[u] = to_mut(REGISTERING)

LostToRegister(t) == op[t] = "register" /\ old[t] = to_mut(REGISTERING)

\* C14 as stated: a register whose swap observed REGISTERING does not enter
\* end_register, stores nothing, does not touch data, and invokes and
\* releases no waker.
LoserIsNoOp ==
  \A t \in Threads : LostToRegister(t) =>
    /\ pc[t] \in {"r_wake", "idle"}
    /\ mine[t] = 0 /\ sup[t] = 0 /\ ~pubd[t] /\ rmw[t] = 1
    /\ woke[t] = 0

LoserTouchesNothing ==
  \A t \in Threads :
    (LostToRegister(t) /\ pc[t] = "r_wake" /\ pc'[t] # pc[t]) =>
      (vtable' = vtable /\ data' = data /\ clones' = clones)

\* C14 amended: such a register does not enter end_register, stores nothing,
\* does not touch data or vtable again, releases no waker and clones none,
\* but it does invoke the caller's own waker, exactly once, before returning.
LoserOnlySelfWakesState ==
  \A t \in Threads : LostToRegister(t) =>
    /\ pc[t] \in {"r_wake", "idle"}
    /\ mine[t] = 0 /\ sup[t] = 0 /\ ~pubd[t] /\ rmw[t] = 1
    /\ woke[t] = (IF Returned(t) THEN 1 ELSE 0)

LoserOnlySelfWakes ==
  []LoserOnlySelfWakesState /\ [][LoserTouchesNothing]_vars

\* a register lost to a register that holds the lock, woke its caller and
\* returned while the winner is still before its compare_exchange
LoserOnlySelfWakesWitness ==
  \E t, u \in Threads :
    /\ LostToRegister(t) /\ Returned(t) /\ woke[t] = 1
    /\ pc[u] = "r_cas" /\ rgIn[u] /\ ~tkIn[u]

\* C15 (a failed publish saw TAKING): whenever a register is about to
\* execute its compare_exchange, vtable is REGISTERING or TAKING, so the
\* value a failing compare_exchange returns is TAKING; a register whose
\* compare_exchange has failed was raced by a take.
CasFailureSeesTaking ==
  \A t \in Threads :
    /\ pc[t] = "r_cas" =>
         (vtable # to_mut(REGISTERING) => vtable = to_mut(TAKING))
    /\ pc[t] = "r_cas" => (vtable = to_mut(TAKING) => tkIn[t])
    /\ pc[t] = "r_unlock" => (tkIn[t] /\ vtable \in Sentinels)

\* a compare_exchange has failed although a register had put REGISTERING
\* back in the meantime
CasFailureSeesTakingWitness ==
  \E t \in Threads : pc[t] = "r_unlock" /\ tkIn[t] /\ rgIn[t]

\* C16 (the ABA miss needs a racing register): a register that won the lock
\* and during whose critical section some take swapped publishes only if
\* another register swapped during that critical section too; if none did,
\* it finds TAKING at its compare_exchange, however many takes swapped, and
\* returns unpublished having invoked the caller's waker.
AbaNeedsRegister ==
  \A t \in Threads : (op[t] = "register" /\ tkIn[t]) =>
    /\ pubd[t] => rgIn[t]
    /\ ~rgIn[t] =>
         /\ pc[t] \in {"r_dropold", "r_store", "r_cas"} =>
              vtable = to_mut(TAKING)
         /\ Returned(t) => woke[t] = 1

\* two takes swapped during the critical section of a register and no
\* register did: it has returned, self-woken
AbaNeedsRegisterWitness ==
  \E t, u, v \in Threads :
    /\ RegisterReturned(t) /\ tkIn[t] /\ ~rgIn[t] /\ woke[t] = 1 /\ nops = 3
    /\ u # v /\ IsTake(u) /\ IsTake(v)
    /\ old[u] = to_mut(REGISTERING) /\ old[v] = to_mut(TAKING)

\* the ABA miss itself: a register published without self-wake although a
\* take had swapped during its critical section
AbaMiss(t) ==
  RegisterReturned(t) /\ tkIn[t] /\ rgIn[t] /\ pubd[t] /\ woke[t] = 0

\* C18 (the lock is never left stuck): whenever every started call has
\* returned, vtable is null or a real table, and a call that then begins
\* alone wins the lock with its swap.
NeverStuckState == AllIdle => vtable \notin Sentinels

NeverStuckStep ==
  (AllIdle /\ nops' = nops + 1) =>
    \E t \in Threads : pc'[t] # "idle" /\ old'[t] \notin Sentinels

NeverStuck == []NeverStuckState /\ [][NeverStuckStep]_vars

\* all calls have returned, among them a register that had overwritten
\* TAKING and a take that had overwritten REGISTERING
NeverStuckWitness ==
  /\ AllIdle /\ ~dropped /\ vtable \notin Sentinels
  /\ \E u, v \in Threads :
       /\ op[u] = "register" /\ old[u] = to_mut(TAKING)
       /\ IsTake(v) /\ old[v] = to_mut(REGISTERING)

\* C19 (a losing take is answered by a self-wake): a register during whose
\* critical section a take swapped returns either self-woken or published
\* after another register swapped in that critical section; the TAKING such
\* a take leaves is only ever turned back into REGISTERING by the swap of a
\* register that observes TAKING, which is thereby in flight inside that
\* critical section; and every register that observed TAKING has invoked
\* its caller's waker by the time it returns.
TakeAnsweredState ==
  /\ \A t \in Threads :
       (RegisterReturned(t) /\ tkIn[t]) =>
         (woke[t] = 1 \/ (pubd[t] /\ rgIn[t]))
  /\ \A u \in Threads :
       (RegisterReturned(u) /\ old[u] = to_mut(TAKING)) => woke[u] = 1

TakeAnsweredStep ==
  \A t \in Threads :
    (Locked(t) /\ op[t] = "register" /\ tkIn[t]
       /\ vtable = to_mut(TAKING) /\ vtable' # vtable) =>
      \/ pc[t] = "r_unlock" /\ pc'[t] = "r_dropnew"
      \/ /\ vtable' = to_mut(REGISTERING)
         /\ rgIn'[t]
         /\ \E u \in Threads \ {t} :
              /\ pc[u] = "idle" /\ pc'[u] = "r_wake"
              /\ op'[u] = "register" /\ old'[u] = to_mut(TAKING)

TakeAnswered == []TakeAnsweredState /\ [][TakeAnsweredStep]_vars

\* the lock holder published after a take and a register had swapped in
\* its critical section; that register observed TAKING and woke its caller
TakeAnsweredWitness ==
  \E t, u \in Threads :
    /\ AbaMiss(t)
    /\ RegisterReturned(u) /\ old[u] = to_mut(TAKING) /\ woke[u] = 1

\* ------------------------------------------------------------ one registrant
\* register() as the task's single owner calls it: one thread registers,
\* one call after the other, and never takes or wakes
LiveRegister(t, h) ==
  /\ op[t] \in {"none", "register"}
  /\ \A u \in Threads \ {t} : op[u] # "register"
  /\ RegisterSwap(t, h)

\* wake() as the producers call it, from any other thread
LiveWake(t) ==
  /\ op[t] \in {"none", "wake"}
  /\ TakeSwap(t, "wake")

LiveNext ==
  \/ \E t \in Threads : \E h \in Handles : LiveRegister(t, h)
  \/ \E t \in Threads : RegisterDropOld(t)
  \/ \E t \in Threads : RegisterStore(t)
  \/ \E t \in Threads : RegisterCas(t)
  \/ \E t \in Threads : RegisterUnlock(t)
  \/ \E t \in Threads : RegisterDropNew(t)
  \/ \E t \in Threads : RegisterWake(t)
  \/ \E t \in Threads : LiveWake(t)
  \/ \E t \in Threads : TakeRead(t)
  \/ \E t \in Threads : TakeUnlock(t)
  \/ \E t \in Threads : WakeInvoke(t)

\* no call blocks, so a started call runs to completion once its thread is
\* scheduled: weak fairness of each thread's steps inside a call
SpecLive ==
  Init /\ [][LiveNext]_vars /\ \A t \in Threads : WF_vars(ThreadStep(t))

\* the waker of t's current register call has been invoked: by the call's
\* own wake_by_ref or by a wake() that took the clone the call published
InvokedLast(t) ==
  \/ woke[t] >= 1
  \/ mine[t] \in Ids /\ clones[mine[t]].st = "invoked"

\* C17 (wakeup liveness with one registrant): once a wake's swap has
\* happened after the swap of the registrant's latest register(h) call,
\* eventually h is invoked (by that call's self-wake or by a wake that took
\* its clone) or a newer register call has begun, so that call was not the
\* last one.
WakeupLiveness ==
  (takeSince /\ \E t \in Threads : op[t] = "register")
    ~> (~takeSince \/ \E t \in Threads : op[t] = "register" /\ InvokedLast(t))

\* the last register published, two wakes swapped after it, the one that
\* won the lock invoked its clone
WakeupLivenessWitness ==
  \E t, u, v \in Threads :
    /\ op[t] = "register" /\ takeSince /\ pubd[t] /\ sup[t] # 0
    /\ clones[mine[t]].st = "invoked"
    /\ u # v /\ op[u] = "wake" /\ op[v] = "wake"
    /\ res[u] = mine[t] /\ old[v] = to_mut(TAKING)

TypeOK ==
  /\ vtable \in Sentinels \cup {null_mut} \cup {VTableOf(h) : h \in Handles}
  /\ data \in 0..MaxOps
  /\ nops \in 0..MaxOps
====
